---- MODULE Spec2Model ----
(***************************************************************************)
(* A model of the gravity simulator in src/Models: the two Position        *)
(* variants (SphericalPoint, Point3D), SphericalVelocity, SphericalForce,  *)
(* Mass and the SpaceTime step loop.                                       *)
(*                                                                         *)
(* Numbers.  The program computes in floating point.  The model computes   *)
(* in exact rationals <<n, d>> (d > 0, lowest terms) and keeps its inputs  *)
(* on points whose spherical coordinates have rational sines and cosines   *)
(* (the axes and Pythagorean directions such as (3,4,12)), so that every   *)
(* conversion is computed by the code's own formula and not assumed.  An   *)
(* equality of the model stands for the program's equality up to rounding. *)
(*                                                                         *)
(* Angles.  An angle is [c, s, k]: cosine c, sine s, and the number k of   *)
(* whole turns added to the principal value in (-pi, pi].  acos and atan2  *)
(* return k = 0; the setters' modulo is computed on this form.             *)
(***************************************************************************)
EXTENDS Integers, Sequences, FiniteSets, TLC

\* ------------------------------------------------------------- bounds
MaxMasses == 2
MaxUpdates == 2
MaxDt == 3
MaxSets == 1

\* ---------------------------------------------------------- rationals
Abs(n) == IF n < 0 THEN -n ELSE n

RECURSIVE Gcd(_, _)
Gcd(a, b) == IF b = 0 THEN a ELSE Gcd(b, a % b)

\* n/d in lowest terms with a positive denominator, given g = gcd(|n|, |d|)
Reduce(n, d, g) ==
    IF d < 0 THEN <<-(n \div g), -(d \div g)>> ELSE <<n \div g, d \div g>>
Norm(n, d) ==
    IF n = 0 THEN <<0, 1>>
    ELSE IF d = 0 THEN <<IF n < 0 THEN -1 ELSE 1, 0>>
    ELSE Reduce(n, d, Gcd(Abs(n), Abs(d)))

R(n) == <<n, 1>>
Zero == <<0, 1>>
One == <<1, 1>>

RNeg(a) == <<-a[1], a[2]>>
RAdd(a, b) ==
    IF a[2] = b[2] THEN Norm(a[1] + b[1], a[2])
    ELSE Norm(a[1] * b[2] + b[1] * a[2], a[2] * b[2])
RSub(a, b) == RAdd(a, RNeg(b))
RMul(a, b) ==
    IF a[1] = 0 \/ b[1] = 0 THEN <<0, 1>>
    ELSE Norm(a[1] * b[1], a[2] * b[2])
\* a / b for b # 0 (the callers test b first, as Python raises on b = 0)
RDiv(a, b) == RMul(a, Norm(b[2], b[1]))
RSq(a) == RMul(a, a)
RLt(a, b) == a[1] * b[2] < b[1] * a[2]
RLe(a, b) == a[1] * b[2] <= b[1] * a[2]
RMax(a, b) == IF RLt(a, b) THEN b ELSE a
RMin(a, b) == IF RLt(a, b) THEN a ELSE b
RSum3(a, b, c) == RAdd(RAdd(a, b), c)

\* largest k with k*k <= n, by bisection on [lo, hi)
RECURSIVE ISqrtIn(_, _, _)
ISqrtIn(n, lo, hi) ==
    IF hi - lo <= 1 THEN lo
    ELSE IF ((lo + hi) \div 2) * ((lo + hi) \div 2) <= n
         THEN ISqrtIn(n, (lo + hi) \div 2, hi)
         ELSE ISqrtIn(n, lo, (lo + hi) \div 2)
ISqrt(n) == ISqrtIn(n, 0, IF n < 46340 THEN n + 1 ELSE 46341)

\* math.sqrt on q >= 0.  Exact where the root is rational.  Elsewhere the
\* root is irrational and the model keeps an upper estimate of it, which is
\* positive: enough for the code's tests against zero, and used for nothing
\* else (every statement below is made where the roots are exact).
RootOf(q, kn, kd) ==
    IF kn * kn = q[1] /\ kd * kd = q[2] THEN <<kn, kd>>
    ELSE <<ISqrt(q[1] \div q[2]) + 1, 1>>
Sqrt(q) == RootOf(q, ISqrt(q[1]), ISqrt(q[2]))
ExactRoot(q) == RSq(Sqrt(q)) = q

\* ------------------------------------------------------------- angles
Angle(c, s, k) == [c |-> c, s |-> s, k |-> k]
AngleZero == Angle(One, Zero, 0)
Cos(a) == a.c
Sin(a) == a.s

\* math.acos(c): the angle in [0, pi] with cosine c
Acos(c) == Angle(c, Sqrt(RSub(One, RSq(c))), 0)

\* math.atan2(y, x): the angle in (-pi, pi] of the direction (x, y);
\* atan2(0, 0) = 0 (the model's zero has no sign: Python's -0.0, for which
\* math.atan2(-0.0, -0.0) = -pi, is read as 0)
AngleOf(x, y, rho) ==
    IF rho = Zero THEN AngleZero ELSE Angle(RDiv(x, rho), RDiv(y, rho), 0)
Atan2(y, x) == AngleOf(x, y, Sqrt(RAdd(RSq(x), RSq(y))))

\* value % math.pi: the representative in [0, pi)
ModPi(a) ==
    IF a.s = Zero THEN AngleZero
    ELSE IF RLt(Zero, a.s) THEN Angle(a.c, a.s, 0)
    ELSE Angle(RNeg(a.c), RNeg(a.s), 0)

\* value % (2 * math.pi): the representative in [0, 2 pi)
Mod2Pi(a) == Angle(a.c, a.s, IF RLt(a.s, Zero) THEN 1 ELSE 0)

\* angle + d radians.  The model's angles carry no radian offset: the
\* actions step only where d = 0 (see OnGrid below).
AngleAdd(a, d) == IF d = Zero THEN a ELSE Angle(Zero, Zero, 0)

\* cos(a - b)
CosDiff(a, b) == RAdd(RMul(a.c, b.c), RMul(a.s, b.s))

\* the ranges of the spec: theta in [0, pi], phi in [0, 2 pi)
InZeroPi(a) == a.k = 0 /\ RLe(Zero, a.s)
InZeroTwoPi(a) == (a.k = 0 /\ RLe(Zero, a.s)) \/ (a.k = 1 /\ RLt(a.s, Zero))

\* ------------------------------------------------------------- points
\* A triple of Cartesian components on which the code's square roots are
\* rational: the inputs are drawn from such triples.
ExactXYZ(x, y, z) ==
    /\ ExactRoot(RAdd(RSq(x), RSq(y)))
    /\ ExactRoot(RSum3(RSq(x), RSq(y), RSq(z)))

\* SphericalPoint / Point3D . _cartesian_to_spherical
SphericalOf(x, y, z, r) ==
    IF r = Zero
    THEN [r |-> Zero, theta |-> AngleZero, phi |-> AngleZero]
    ELSE [r |-> r, theta |-> Acos(RDiv(z, r)), phi |-> Atan2(y, x)]
\* a conversion that would call atan2(x, y)
CartesianToSphericalSwapped(x, y, z) ==
    SphericalOf(y, x, z, Sqrt(RSum3(RSq(x), RSq(y), RSq(z))))
CartesianToSpherical(x, y, z) ==
    SphericalOf(x, y, z, Sqrt(RSum3(RSq(x), RSq(y), RSq(z))))

\* SphericalPoint._spherical_to_cartesian
SphericalToCartesian(r, theta, phi) ==
    [x |-> RMul(RMul(r, Sin(theta)), Cos(phi)),
     y |-> RMul(RMul(r, Sin(theta)), Sin(phi)),
     z |-> RMul(r, Cos(theta))]

\* SphericalPoint(x, y, z): stores (r, theta, phi)
Stored(s) == [kind |-> "spherical", r |-> s.r, theta |-> s.theta, phi |-> s.phi]
SphericalPoint(x, y, z) == Stored(CartesianToSpherical(x, y, z))

\* Point3D(x, y, z): stores (x, y, z)
Point3D(x, y, z) == [kind |-> "cartesian", x |-> x, y |-> y, z |-> z]

\* SphericalPoint.x, .y, .z getters
SX(p) == SphericalToCartesian(p.r, p.theta, p.phi).x
SY(p) == SphericalToCartesian(p.r, p.theta, p.phi).y
SZ(p) == SphericalToCartesian(p.r, p.theta, p.phi).z

\* Point3D.r, .theta, .phi getters
P3R(p) == Sqrt(RSum3(RSq(p.x), RSq(p.y), RSq(p.z)))
ThetaOf(z, r) == IF r = Zero THEN AngleZero ELSE Acos(RDiv(z, r))
P3Theta(p) == ThetaOf(p.z, P3R(p))
P3Phi(p) == Atan2(p.y, p.x)

\* the getters of either variant
GetX(p) == IF p.kind = "spherical" THEN SX(p) ELSE p.x
GetY(p) == IF p.kind = "spherical" THEN SY(p) ELSE p.y
GetZ(p) == IF p.kind = "spherical" THEN SZ(p) ELSE p.z
GetR(p) == IF p.kind = "spherical" THEN p.r ELSE P3R(p)
GetTheta(p) == IF p.kind = "spherical" THEN p.theta ELSE P3Theta(p)
GetPhi(p) == IF p.kind = "spherical" THEN p.phi ELSE P3Phi(p)

\* SphericalPoint x, y, z setters: convert, replace one component, convert
\* back
SSetX(p, v) == SphericalPoint(v, SY(p), SZ(p))
SSetY(p, v) == SphericalPoint(SX(p), v, SZ(p))
SSetZ(p, v) == SphericalPoint(SX(p), SY(p), v)

\* SphericalPoint r setter: max(0.0, value)
SSetR(p, v) == [p EXCEPT !.r = RMax(Zero, v)]
\* SphericalPoint theta setter: value % math.pi
SSetTheta(p, a) == [p EXCEPT !.theta = ModPi(a)]
\* SphericalPoint phi setter: value % (2 * math.pi)
SSetPhi(p, a) == [p EXCEPT !.phi = Mod2Pi(a)]

\* Point3D x, y, z setters: store
P3SetX(p, v) == [p EXCEPT !.x = v]
P3SetY(p, v) == [p EXCEPT !.y = v]
P3SetZ(p, v) == [p EXCEPT !.z = v]

\* Point3D r setter: rescale, or move along +z from the origin
Scaled(p, v, current_r) ==
    IF current_r = Zero
    THEN [p EXCEPT !.z = RMax(Zero, v)]
    ELSE [p EXCEPT !.x = RMul(@, RDiv(RMax(Zero, v), current_r)),
                   !.y = RMul(@, RDiv(RMax(Zero, v), current_r)),
                   !.z = RMul(@, RDiv(RMax(Zero, v), current_r))]
P3SetR(p, v) == Scaled(p, v, P3R(p))

\* Point3D: the Cartesian components of (r, theta, phi), stored
Placed(p, r, theta, phi) ==
    [p EXCEPT !.x = RMul(RMul(r, Sin(theta)), Cos(phi)),
              !.y = RMul(RMul(r, Sin(theta)), Sin(phi)),
              !.z = RMul(r, Cos(theta))]
\* Point3D theta setter: value % math.pi, then back to Cartesian
P3SetTheta(p, a) == Placed(p, P3R(p), ModPi(a), P3Phi(p))

\* Point3D phi setter: value % (2 * math.pi), then back to Cartesian
P3SetPhi(p, a) == Placed(p, P3R(p), P3Theta(p), Mod2Pi(a))

\* the Point interface: each setter of either variant
SetX(p, v) == IF p.kind = "spherical" THEN SSetX(p, v) ELSE P3SetX(p, v)
SetY(p, v) == IF p.kind = "spherical" THEN SSetY(p, v) ELSE P3SetY(p, v)
SetZ(p, v) == IF p.kind = "spherical" THEN SSetZ(p, v) ELSE P3SetZ(p, v)
SetR(p, v) == IF p.kind = "spherical" THEN SSetR(p, v) ELSE P3SetR(p, v)
SetTheta(p, a) ==
    IF p.kind = "spherical" THEN SSetTheta(p, a) ELSE P3SetTheta(p, a)
SetPhi(p, a) ==
    IF p.kind = "spherical" THEN SSetPhi(p, a) ELSE P3SetPhi(p, a)

\* SphericalPoint.distance_to(other) for another SphericalPoint: the law of
\* cosines, with the two r = 0 cases first
DistanceTo(p, q) ==
    IF p.r = Zero THEN q.r
    ELSE IF q.r = Zero THEN p.r
    ELSE Sqrt(RSub(RAdd(RSq(p.r), RSq(q.r)),
                   RMul(RMul(R(2), RMul(p.r, q.r)),
                        RMax(RNeg(One), RMin(One,
                          RAdd(RMul(RMul(Sin(p.theta), Sin(q.theta)),
                                    CosDiff(p.phi, q.phi)),
                               RMul(Cos(p.theta), Cos(q.theta))))))))

\* SphericalPoint.direction_to(other): <<theta, phi>> of other - self
Towards(dx, dy, dz, dist) ==
    IF dist = Zero THEN <<AngleZero, AngleZero>>
    ELSE <<Acos(RDiv(dz, dist)), Atan2(dy, dx)>>
Direction(dx, dy, dz) ==
    Towards(dx, dy, dz, Sqrt(RSum3(RSq(dx), RSq(dy), RSq(dz))))
DirectionTo(p, q) ==
    Direction(RSub(GetX(q), GetX(p)), RSub(GetY(q), GetY(p)),
              RSub(GetZ(q), GetZ(p)))

\* the displacement other - self has rational direction cosines
ExactDirection(p, q) ==
    ExactXYZ(RSub(GetX(q), GetX(p)), RSub(GetY(q), GetY(p)),
             RSub(GetZ(q), GetZ(p)))

\* ----------------------------------------------------------- velocity
Velocity(v_r, v_theta, v_phi) ==
    [v_r |-> v_r, v_theta |-> v_theta, v_phi |-> v_phi]

\* SphericalVelocity.from_cartesian, on r, theta and phi of the position
Projected(vx, vy, vz, r, sin_theta, cos_theta, sin_phi, cos_phi) ==
    IF r = Zero
    THEN Velocity(Sqrt(RSum3(RSq(vx), RSq(vy), RSq(vz))), Zero, Zero)
    ELSE Velocity(
           RSum3(RMul(RMul(vx, sin_theta), cos_phi),
                 RMul(RMul(vy, sin_theta), sin_phi),
                 RMul(vz, cos_theta)),
           IF RLt(Zero, r)
           THEN RDiv(RSub(RAdd(RMul(RMul(vx, cos_theta), cos_phi),
                               RMul(RMul(vy, cos_theta), sin_phi)),
                          RMul(vz, sin_theta)), r)
           ELSE Zero,
           IF RLt(Zero, r) /\ sin_theta # Zero
           THEN RDiv(RAdd(RMul(RNeg(vx), sin_phi), RMul(vy, cos_phi)),
                     RMul(r, sin_theta))
           ELSE Zero)

\* SphericalVelocity.from_cartesian(vx, vy, vz, position)
FromCartesian(vx, vy, vz, position) ==
    Projected(vx, vy, vz, GetR(position),
              Sin(GetTheta(position)), Cos(GetTheta(position)),
              Sin(GetPhi(position)), Cos(GetPhi(position)))

\* SphericalVelocity.to_cartesian, on r, theta and phi of the position:
\* <<vx, vy, vz>>
Unprojected(v_r, v_theta, v_phi, r, sin_theta, cos_theta, sin_phi, cos_phi) ==
    <<RSub(RAdd(RMul(RMul(v_r, sin_theta), cos_phi),
                RMul(RMul(RMul(r, v_theta), cos_theta), cos_phi)),
           RMul(RMul(RMul(r, sin_theta), v_phi), sin_phi)),
      RSum3(RMul(RMul(v_r, sin_theta), sin_phi),
            RMul(RMul(RMul(r, v_theta), cos_theta), sin_phi),
            RMul(RMul(RMul(r, sin_theta), v_phi), cos_phi)),
      RSub(RMul(v_r, cos_theta), RMul(RMul(r, v_theta), sin_theta))>>

\* a conversion that would take the angular rates for linear speeds
ToCartesianRates(v, position) ==
    Unprojected(v.v_r, v.v_theta, v.v_phi, One,
                Sin(GetTheta(position)), Cos(GetTheta(position)),
                Sin(GetPhi(position)), Cos(GetPhi(position)))

\* SphericalVelocity.to_cartesian(position)
ToCartesian(v, position) ==
    Unprojected(v.v_r, v.v_theta, v.v_phi, GetR(position),
                Sin(GetTheta(position)), Cos(GetTheta(position)),
                Sin(GetPhi(position)), Cos(GetPhi(position)))

\* SphericalVelocity.__add__
VelocityAdd(v, w) ==
    Velocity(RAdd(v.v_r, w.v_r), RAdd(v.v_theta, w.v_theta),
             RAdd(v.v_phi, w.v_phi))

\* a magnitude that would forget the sine in the azimuthal speed
MagnitudeSqNoSine(v, position) ==
    RSum3(RSq(v.v_r), RSq(RMul(GetR(position), v.v_theta)),
          RSq(RMul(GetR(position), v.v_phi)))

\* the radicand of SphericalVelocity.magnitude(position)
MagnitudeSq(v, position) ==
    RSum3(RSq(v.v_r), RSq(RMul(GetR(position), v.v_theta)),
          RSq(RMul(RMul(GetR(position), Sin(GetTheta(position))), v.v_phi)))

\* SphericalVelocity.magnitude(position)
Magnitude(v, position) == Sqrt(MagnitudeSq(v, position))

\* -------------------------------------------------------------- force
Force(F_r, F_theta, F_phi) ==
    [F_r |-> F_r, F_theta |-> F_theta, F_phi |-> F_phi]
\* SphericalForce(): all components default to 0.0
ForceZero == Force(Zero, Zero, Zero)
\* SphericalForce.__add__
ForceAdd(f, g) ==
    Force(RAdd(f.F_r, g.F_r), RAdd(f.F_theta, g.F_theta),
          RAdd(f.F_phi, g.F_phi))
\* SphericalForce.reset
ForceReset(f) == [f EXCEPT !.F_r = Zero, !.F_theta = Zero, !.F_phi = Zero]

\* --------------------------------------------------------------- mass
\* SpaceTime.Gravitational_Constant.  Forces and potentials are held in the
\* unit system in which G = 1 (the time unit is 1/sqrt(G) seconds): the code
\* uses G only as this factor, so G * q is modelled by q in these units.
Gravitational_Constant == One

\* Mass.__init__ over _Element.__init__.  "given" remembers the arguments
\* of the constructor (it is not a field of the program).
Element(position, vx, vy, vz, mass, given) ==
    [position |-> position,
     velocity |-> FromCartesian(vx, vy, vz, position),
     age |-> Zero,
     mass |-> mass,
     potential |-> Zero,
     net_force |-> ForceZero,
     given |-> given]
NewMass(x, y, z, vx, vy, vz, mass) ==
    Element(SphericalPoint(R(x), R(y), R(z)), R(vx), R(vy), R(vz), R(mass),
            <<x, y, z, vx, vy, vz, mass>>)

\* _Element.distance_from
DistanceFrom(self, other) == DistanceTo(self.position, other.position)

\* _Element.speed
Speed(self) == Magnitude(self.velocity, self.position)

\* a potential that would look the constant up before testing the distance
PotentialAlwaysRaises(self, other) == [raised |-> TRUE, value |-> Zero]

\* Mass.get_gravitational_potential(other).  The name SpaceTime is imported
\* in mass.py only under TYPE_CHECKING, so the last line raises NameError
\* when it is reached: [raised, value].
GetGravitationalPotential(self, other) ==
    IF DistanceFrom(self, other) = Zero
    THEN [raised |-> FALSE, value |-> Zero]
    ELSE [raised |-> TRUE, value |-> Zero]

\* Mass.force_from: the unit vector (ux, uy, uz) towards the other mass,
\* projected on the spherical basis at this mass and scaled
ProjectForce(magnitude, ux, uy, uz, sin_theta_pos, cos_theta_pos, sin_phi_pos, cos_phi_pos) ==
    Force(RMul(magnitude, RSum3(RMul(RMul(ux, sin_theta_pos), cos_phi_pos),
                                RMul(RMul(uy, sin_theta_pos), sin_phi_pos),
                                RMul(uz, cos_theta_pos))),
          RMul(magnitude, RSub(RAdd(RMul(RMul(ux, cos_theta_pos), cos_phi_pos),
                                    RMul(RMul(uy, cos_theta_pos), sin_phi_pos)),
                               RMul(uz, sin_theta_pos))),
          RMul(magnitude, RAdd(RMul(RNeg(ux), sin_phi_pos),
                               RMul(uy, cos_phi_pos))))

\* Mass.force_from past the test of the distance: the magnitude, and the
\* direction angles dir = <<theta_dir, phi_dir>>
Attraction(self, other, distance, dir) ==
    ProjectForce(RDiv(RMul(Gravitational_Constant, RMul(other.mass, self.mass)),
                      RSq(distance)),
                 RMul(Sin(dir[1]), Cos(dir[2])),
                 RMul(Sin(dir[1]), Sin(dir[2])),
                 Cos(dir[1]),
                 Sin(self.position.theta), Cos(self.position.theta),
                 Sin(self.position.phi), Cos(self.position.phi))

\* Mass.force_from(other) (it imports SpaceTime itself)
ForceFrom(self, other) ==
    IF DistanceFrom(self, other) = Zero THEN ForceZero
    ELSE Attraction(self, other, DistanceFrom(self, other),
                    DirectionTo(self.position, other.position))

\* the loop of Mass.apply_gravity: for each other mass, add its potential
\* (_add_gravitational_potential), then its force; an exception leaves the
\* loop with what was accumulated so far
RECURSIVE Accumulate(_, _)
Accumulate(self, masses) ==
    IF masses = <<>> THEN [m |-> self, raised |-> FALSE]
    ELSE IF GetGravitationalPotential(self, Head(masses)).raised
         THEN [m |-> self, raised |-> TRUE]
         ELSE Accumulate(
                [self EXCEPT
                   !.potential =
                      RAdd(@, GetGravitationalPotential(self, Head(masses)).value),
                   !.net_force = ForceAdd(@, ForceFrom(self, Head(masses)))],
                Tail(masses))

\* an apply_gravity that would accumulate on what the accumulators hold
ApplyGravityNoReset(self, masses) == Accumulate(self, masses)

\* Mass.apply_gravity(masses): reset both accumulators, then the loop
ApplyGravity(self, masses) ==
    Accumulate([self EXCEPT !.net_force = ForceReset(@), !.potential = Zero],
               masses)

\* a radial step that would forget the time step
RadialStepUnscaled(r, v_r, dt) == RAdd(r, v_r)

\* self.position.r += self.velocity.v_r * dt (before the setter's clamp)
RadialStep(r, v_r, dt) == RAdd(r, RMul(v_r, dt))

\* an integration that would advance the position by the old velocity
AdvanceExplicit(self, velocity, dt) ==
    [self EXCEPT
       !.velocity = velocity,
       !.position =
          SSetPhi(
            SSetTheta(
              SSetR(self.position,
                    RadialStep(self.position.r, self.velocity.v_r, dt)),
              AngleAdd(self.position.theta, RMul(self.velocity.v_theta, dt))),
            AngleAdd(self.position.phi, RMul(self.velocity.v_phi, dt)))]

\* Mass.update_position past the divisions: the new velocity is stored,
\* then r, theta and phi are advanced through their setters
Advance(self, velocity, dt) ==
    [self EXCEPT
       !.velocity = velocity,
       !.position =
          SSetPhi(
            SSetTheta(
              SSetR(self.position,
                    RadialStep(self.position.r, velocity.v_r, dt)),
              AngleAdd(self.position.theta, RMul(velocity.v_theta, dt))),
            AngleAdd(self.position.phi, RMul(velocity.v_phi, dt)))]

\* the velocity plus delta_v = (a_r dt, a_theta dt, a_phi dt)
Accelerated(self, dt) ==
    VelocityAdd(self.velocity,
      Velocity(
        RMul(RDiv(self.net_force.F_r, self.mass), dt),
        RMul(RDiv(self.net_force.F_theta, RMul(self.mass, self.position.r)), dt),
        RMul(RDiv(self.net_force.F_phi,
                  RMul(RMul(self.mass, self.position.r),
                       Sin(self.position.theta))), dt)))

\* an update_position that would divide by the mass only
UpdatePositionRadial(self, dt) ==
    IF self.mass = Zero THEN [m |-> self, raised |-> TRUE]
    ELSE [m |-> Advance(self,
                        VelocityAdd(self.velocity,
                            Velocity(RMul(RDiv(self.net_force.F_r, self.mass), dt),
                                     Zero, Zero)),
                        dt),
          raised |-> FALSE]

\* Mass.update_position(dt): [m, raised].  The three divisions raise
\* ZeroDivisionError on a zero divisor, before anything is assigned.
UpdatePosition(self, dt) ==
    IF \/ self.mass = Zero
       \/ RMul(self.mass, self.position.r) = Zero
       \/ RMul(RMul(self.mass, self.position.r), Sin(self.position.theta)) = Zero
    THEN [m |-> self, raised |-> TRUE]
    ELSE [m |-> Advance(self, Accelerated(self, dt), dt), raised |-> FALSE]

\* -------------------------------------------------------------- world
VARIABLES
    masses,     \* SpaceTime.__masses: the sequence of masses
    age,        \* SpaceTime.__age
    pc,         \* "idle", or "update" inside SpaceTime.update
    steps,      \* the calls that SpaceTime.update has still to make
    dt,         \* the argument of the update in progress
    outcome,    \* how the last update ended: "none", "returned", "raised"
    entry,      \* history: masses and age when the update was entered
    gdone,      \* history: the masses whose apply_gravity has returned
    moved,      \* history: the masses whose update_position has returned
    updates,    \* the number of update calls made
    ret,        \* the last direct call of a method and its result
    calls,      \* the number of setter calls made
    pt          \* a Position object of either variant

vars == <<masses, age, pc, steps, dt, outcome, entry, gdone, moved, updates,
          ret, calls, pt>>
worldVars == <<masses, age, pc, steps, dt, outcome, entry, gdone, moved,
               updates>>

\* the arguments the model draws for add_mass
\* <<x, y, z, vx, vy, vz, mass>>: the origin, the x axis (at rest, moving
\* outwards and inwards, with and without mass), the pole theta = 0 and a
\* point off the axes
Arguments ==
    {<<0, 0, 0, 0, 0, 0, 5>>, <<10, 0, 0, 0, 0, 0, 10>>,
     <<10, 0, 0, 1, 0, 0, 10>>, <<10, 0, 0, 1, 0, 0, 0>>,
     <<10, 0, 0, -4, 0, 0, 5>>, <<0, 0, 5, 0, 1, 0, 5>>,
     <<3, 4, 12, 1, 2, 2, 10>>}
\* the time steps update is called with, up to MaxDt (update takes any
\* float: a step backwards in time is not refused)
TimeSteps == {d \in {-1, 0, 1, 3, 4} : d <= MaxDt}

NoRet == [op |-> "none"]
NoPoint == [kind |-> "none"]

Init ==
    /\ masses = <<>>
    /\ age = 0
    /\ pc = "idle"
    /\ steps = <<>>
    /\ dt = 0
    /\ outcome = "none"
    /\ entry = [masses |-> <<>>, age |-> 0]
    /\ gdone = {}
    /\ moved = {}
    /\ updates = 0
    /\ ret = NoRet
    /\ calls = 0
    /\ pt = NoPoint

\* an add_mass that would put the new mass at the head of the list
AddMassFirst(a) ==
    /\ pc = "idle"
    /\ Len(masses) < MaxMasses
    /\ masses' = <<NewMass(a[1], a[2], a[3], a[4], a[5], a[6], a[7])>> \o masses
    /\ ret' = [op |-> "add_mass", count |-> Len(masses),
               value |-> NewMass(a[1], a[2], a[3], a[4], a[5], a[6], a[7])]
    /\ UNCHANGED <<age, pc, steps, dt, outcome, entry, gdone, moved, updates, calls,
                   pt>>

\* SpaceTime.add_mass(x, y, z, vx, vy, vz, mass): the new mass is appended
\* and returned; ret keeps it, with the length of the list before the call
AddMass(a) ==
    /\ pc = "idle"
    /\ Len(masses) < MaxMasses
    /\ masses' = Append(masses, NewMass(a[1], a[2], a[3], a[4], a[5], a[6], a[7]))
    /\ ret' = [op |-> "add_mass", count |-> Len(masses),
               value |-> NewMass(a[1], a[2], a[3], a[4], a[5], a[6], a[7])]
    /\ UNCHANGED <<age, pc, steps, dt, outcome, entry, gdone, moved, updates, calls,
                   pt>>

\* other_masses = self.__masses.copy(); other_masses.pop(i)
OtherMasses(ms, i) == SubSeq(ms, 1, i - 1) \o SubSeq(ms, i + 1, Len(ms))

\* a step loop that would advance each mass as soon as its force is known
UpdateStepsInterleaved(n) ==
    [k \in 1 .. 2 * n |->
        IF k % 2 = 1 THEN <<"apply_gravity", (k + 1) \div 2>>
        ELSE <<"update_position", k \div 2>>]

\* the calls SpaceTime.update makes on n masses, in order: apply_gravity
\* on every mass, then update_position on every mass
UpdateSteps(n) ==
    [k \in 1 .. n |-> <<"apply_gravity", k>>]
        \o [k \in 1 .. n |-> <<"update_position", k>>]

\* update_position would raise before assigning anything
Faults(m) ==
    m.mass = Zero \/ m.position.r = Zero \/ Sin(m.position.theta) = Zero

\* The model steps a mass only by whole grid angles: an update is taken
\* when no mass that it moves has an angular displacement.
OnGrid(m, d) ==
    Faults(m) \/ (RMul(m.velocity.v_theta, d) = Zero
                  /\ RMul(m.velocity.v_phi, d) = Zero)

\* SpaceTime.update(dt) is entered
UpdateBegin(d) ==
    /\ pc = "idle"
    /\ updates < MaxUpdates
    /\ \A i \in 1 .. Len(masses) : OnGrid(masses[i], R(d))
    /\ pc' = "update"
    /\ steps' = UpdateSteps(Len(masses))
    /\ dt' = d
    /\ outcome' = "none"
    /\ entry' = [masses |-> masses, age |-> age]
    /\ gdone' = {}
    /\ moved' = {}
    /\ updates' = updates + 1
    /\ ret' = NoRet
    /\ UNCHANGED <<masses, age, calls, pt>>

\* the update leaves by an exception
Raise ==
    /\ pc' = "idle"
    /\ steps' = <<>>
    /\ outcome' = "raised"
    /\ UNCHANGED <<age, gdone, moved>>

\* current_mass.apply_gravity(other_masses), first loop of update
StepApplyGravity ==
    /\ pc = "update"
    /\ steps # <<>>
    /\ Head(steps)[1] = "apply_gravity"
    /\ LET i == Head(steps)[2]
           res == ApplyGravity(masses[i], OtherMasses(masses, i))
       IN  /\ masses' = [masses EXCEPT ![i] = res.m]
           /\ IF res.raised THEN Raise
              ELSE /\ steps' = Tail(steps)
                   /\ gdone' = gdone \cup {i}
                   /\ UNCHANGED <<pc, outcome, age, moved>>
    /\ UNCHANGED <<dt, entry, updates, ret, calls, pt>>

\* mass.update_position(dt), second loop of update
StepUpdatePosition ==
    /\ pc = "update"
    /\ steps # <<>>
    /\ Head(steps)[1] = "update_position"
    /\ LET i == Head(steps)[2]
           res == UpdatePosition(masses[i], R(dt))
       IN  /\ masses' = [masses EXCEPT ![i] = res.m]
           /\ IF res.raised THEN Raise
              ELSE /\ steps' = Tail(steps)
                   /\ moved' = moved \cup {i}
                   /\ UNCHANGED <<pc, outcome, age, gdone>>
    /\ UNCHANGED <<dt, entry, updates, ret, calls, pt>>

\* self.__age += dt, and update returns
UpdateEnd ==
    /\ pc = "update"
    /\ steps = <<>>
    /\ age' = age + dt
    /\ pc' = "idle"
    /\ outcome' = "returned"
    /\ UNCHANGED <<masses, steps, dt, entry, gdone, moved, updates, ret, calls,
                   pt>>

Next ==
    \/ \E a \in Arguments : AddMass(a)
    \/ \E d \in TimeSteps : UpdateBegin(d)
    \/ StepApplyGravity
    \/ StepUpdatePosition
    \/ UpdateEnd

Spec == Init /\ [][Next]_vars

\* ------------------------------------------- the methods of one mass
\* The methods of Mass and the setters of its net_force object, called
\* directly on the masses of a world that is not inside update.
Indices == 1 .. Len(masses)
\* the masses these calls are made on
CallArguments ==
    {<<0, 0, 0, 1, 2, 2, 10>>, <<10, 0, 0, 0, 0, 0, 10>>, <<10, 0, 0, 1, 0, 0, 0>>,
     <<0, -5, 0, 0, 1, 0, 5>>, <<0, 0, 5, 0, 1, 0, 5>>, <<3, 4, 12, 1, 2, 2, 10>>}
\* the calls are made on the first mass added, with the masses of the
\* world (itself included) as the others: any mass can be the first
Subjects == IF masses = <<>> THEN {} ELSE {1}
OthersLists ==
    {<<>>} \cup {<<j>> : j \in Indices} \cup {[j \in Indices |-> j]}
MassesAt(js) == [n \in 1 .. Len(js) |-> masses[js[n]]]
ForceValues == {1}

\* A call that changes nothing is recorded in ret and followed no further:
\* the calls that can follow it are those that follow the state before it.
Observed ==
    ret.op \in {"force_from", "get_gravitational_potential", "to_cartesian"}

\* mass.net_force.F_r = value (SphericalForce setters)
SetForce(i, name, value) ==
    /\ pc = "idle"
    /\ ~Observed
    /\ calls < MaxSets
    /\ i \in Indices
    /\ masses' = [masses EXCEPT ![i].net_force =
                    IF name = "F_r" THEN [@ EXCEPT !.F_r = R(value)]
                    ELSE IF name = "F_theta" THEN [@ EXCEPT !.F_theta = R(value)]
                    ELSE [@ EXCEPT !.F_phi = R(value)]]
    /\ calls' = calls + 1
    /\ ret' = NoRet
    /\ UNCHANGED <<age, pc, steps, dt, outcome, entry, gdone, moved, updates, pt>>

\* masses[i].force_from(masses[j])
CallForceFrom(i, j) ==
    /\ pc = "idle"
    /\ ~Observed
    /\ i \in Indices /\ j \in Indices
    /\ ExactDirection(masses[i].position, masses[j].position)
    /\ ret' = [op |-> "force_from", i |-> i, j |-> j, raised |-> FALSE,
               value |-> ForceFrom(masses[i], masses[j])]
    /\ UNCHANGED <<worldVars, calls, pt>>

\* masses[i].get_gravitational_potential(masses[j])
CallGetGravitationalPotential(i, j) ==
    /\ pc = "idle"
    /\ ~Observed
    /\ i \in Indices /\ j \in Indices
    /\ LET res == GetGravitationalPotential(masses[i], masses[j])
       IN  ret' = [op |-> "get_gravitational_potential", i |-> i, j |-> j,
                   raised |-> res.raised, value |-> res.value]
    /\ UNCHANGED <<worldVars, calls, pt>>

\* masses[i].velocity.to_cartesian(masses[i].position)
CallToCartesian(i) ==
    /\ pc = "idle"
    /\ ~Observed
    /\ i \in Indices
    /\ ret' = [op |-> "to_cartesian", i |-> i,
               value |-> ToCartesian(masses[i].velocity, masses[i].position)]
    /\ UNCHANGED <<worldVars, calls, pt>>

\* masses[i].apply_gravity([masses[j] for j in js])
CallApplyGravity(i, js) ==
    /\ pc = "idle"
    /\ ~Observed
    /\ i \in Indices
    /\ LET res == ApplyGravity(masses[i], MassesAt(js))
       IN  /\ masses' = [masses EXCEPT ![i] = res.m]
           /\ ret' = [op |-> "apply_gravity", i |-> i, js |-> js,
                      raised |-> res.raised, before |-> masses[i]]
    /\ UNCHANGED <<age, pc, steps, dt, outcome, entry, gdone, moved, updates,
                   calls, pt>>

NextCalls ==
    \/ \E a \in CallArguments : AddMass(a)
    \/ \E i \in Subjects, name \in {"F_r", "F_theta", "F_phi"}, value \in ForceValues :
          SetForce(i, name, value)
    \/ \E i \in Subjects, j \in Indices : CallForceFrom(i, j)
    \/ \E i \in Subjects, j \in Indices : CallGetGravitationalPotential(i, j)
    \/ \E i \in Subjects, js \in OthersLists : CallApplyGravity(i, js)
    \/ \E i \in Subjects : CallToCartesian(i)

SpecCalls == Init /\ [][NextCalls]_vars

\* ------------------------------------------ update_position of a mass
\* Mass.update_position called directly on the first mass of a world that
\* is not inside update, after its net force was set through the setters.
\* updates counts these calls.  As in update, a call is taken when it
\* displaces no angle.
CallUpdatePosition(i, d) ==
    /\ pc = "idle"
    /\ updates < MaxUpdates
    /\ i \in Indices
    /\ \/ Faults(masses[i])
       \/ /\ RMul(Accelerated(masses[i], R(d)).v_theta, R(d)) = Zero
          /\ RMul(Accelerated(masses[i], R(d)).v_phi, R(d)) = Zero
    /\ masses' = [masses EXCEPT ![i] = UpdatePosition(masses[i], R(d)).m]
    /\ ret' = [op |-> "update_position", i |-> i, dt |-> d,
               raised |-> UpdatePosition(masses[i], R(d)).raised,
               before |-> masses[i]]
    /\ updates' = updates + 1
    /\ UNCHANGED <<age, pc, steps, dt, outcome, entry, gdone, moved, calls, pt>>

NextStep ==
    \/ \E a \in CallArguments : AddMass(a)
    \/ \E i \in Subjects, name \in {"F_r", "F_theta", "F_phi"}, value \in ForceValues :
          SetForce(i, name, value)
    \/ \E i \in Subjects, d \in TimeSteps : CallUpdatePosition(i, d)

SpecStep == Init /\ [][NextStep]_vars

\* ------------------------------------------------ one Position object
\* A Position of either variant, constructed from Cartesian components and
\* then changed through its setters.  The components and the setters'
\* values are drawn so that the square roots taken stay rational.
Coordinates == {-12, -5, -4, -3, 0, 3, 4, 5, 12}
Triples ==
    {c \in Coordinates \X Coordinates \X Coordinates :
        ExactXYZ(R(c[1]), R(c[2]), R(c[3]))}
SetValues == {-4, 0, 3}
Radii == {-1, 0, 5}
\* 0, pi/2, pi, -pi/2, 2 pi + pi/2, and the angle of the direction (3, 4)
SetAngles ==
    {Angle(One, Zero, 0), Angle(Zero, One, 0), Angle(R(-1), Zero, 0),
     Angle(Zero, R(-1), 0), Angle(Zero, One, 1), Angle(<<3, 5>>, <<4, 5>>, 0)}

ConstructPoint(kind, c) ==
    /\ pt = NoPoint
    /\ pt' = IF kind = "spherical" THEN SphericalPoint(R(c[1]), R(c[2]), R(c[3]))
             ELSE Point3D(R(c[1]), R(c[2]), R(c[3]))
    /\ ret' = [op |-> "construct", given |-> c]
    /\ UNCHANGED <<worldVars, calls>>

\* pt becomes p by the setter op called with value; the call is kept in
\* ret.  exact: the components the setter converts have rational roots.
Assign(p, op, value, exact) ==
    /\ pt # NoPoint
    /\ calls < MaxSets
    /\ exact
    /\ pt' = p
    /\ ret' = [op |-> op, value |-> value, before |-> pt]
    /\ calls' = calls + 1
    /\ UNCHANGED worldVars

PointSetX(v) ==
    Assign(SetX(pt, R(v)), "x", R(v), ExactXYZ(R(v), GetY(pt), GetZ(pt)))
PointSetY(v) ==
    Assign(SetY(pt, R(v)), "y", R(v), ExactXYZ(GetX(pt), R(v), GetZ(pt)))
PointSetZ(v) ==
    Assign(SetZ(pt, R(v)), "z", R(v), ExactXYZ(GetX(pt), GetY(pt), R(v)))
PointSetR(v) == Assign(SetR(pt, R(v)), "r", R(v), TRUE)
PointSetTheta(a) == Assign(SetTheta(pt, a), "theta", a, TRUE)
PointSetPhi(a) == Assign(SetPhi(pt, a), "phi", a, TRUE)

NextPoint ==
    \/ \E kind \in {"spherical", "cartesian"}, c \in Triples : ConstructPoint(kind, c)
    \/ \E v \in SetValues : PointSetX(v)
    \/ \E v \in SetValues : PointSetY(v)
    \/ \E v \in SetValues : PointSetZ(v)
    \/ \E v \in Radii : PointSetR(v)
    \/ \E a \in SetAngles : PointSetTheta(a)
    \/ \E a \in SetAngles : PointSetPhi(a)

SpecPoint == Init /\ [][NextPoint]_vars

\* ============================================================== claims
\* ------------------------------------------------------------------ C1
\* the masses the update in progress (or the last update) was entered with
Entered == 1 .. Len(entry.masses)

\* the accumulators apply_gravity builds for mass i from the masses as
\* they were when update was entered
FromEntry(i) == ApplyGravity(entry.masses[i], OtherMasses(entry.masses, i)).m

\* C1: inside every update, no update_position call is made or pending as
\* the next call until apply_gravity has returned for every mass, and the
\* net force and potential that apply_gravity left on a mass are those
\* computed from the positions all masses had when update was entered.
C1_GravityBeforePosition ==
    /\ (steps # <<>> /\ Head(steps)[1] = "update_position") => gdone = Entered
    /\ moved # {} => gdone = Entered
    /\ \A k \in 1 .. Len(steps) : steps[k][1] = "apply_gravity" => moved = {}
    /\ \A i \in gdone :
          /\ masses[i].net_force = FromEntry(i).net_force
          /\ masses[i].potential = FromEntry(i).potential

\* two masses, the first already advanced, the second not yet
C1_Witness ==
    /\ pc = "update"
    /\ Len(masses) = 2
    /\ moved = {1}
    /\ gdone = {1, 2}
    /\ masses[1].position # entry.masses[1].position

\* ------------------------------------------------------------------ C2
\* every mass integrated and the age advanced by dt
Integrated == moved = Entered /\ age = entry.age + dt
\* no position, no velocity and not the age changed
Untouched ==
    /\ age = entry.age
    /\ \A i \in Entered :
          /\ masses[i].position = entry.masses[i].position
          /\ masses[i].velocity = entry.masses[i].velocity

\* C2: when an update has ended, by returning or by raising, either every
\* mass was integrated and the age advanced by dt, or no position, no
\* velocity and not the age changed.
C2_NoPartialStep ==
    (pc = "idle" /\ outcome # "none") => (Integrated \/ Untouched)

\* ------------------------------------------------------------------ C3
\* masses 5 and 10 were added at (0,0,0) and (10,0,0) and the first call,
\* update(1), has ended
TwoBodyScenario ==
    /\ pc = "idle"
    /\ outcome # "none"
    /\ updates = 1
    /\ dt = 1
    /\ Len(entry.masses) = 2
    /\ entry.masses[1].given = <<0, 0, 0, 0, 0, 0, 5>>
    /\ entry.masses[2].given = <<10, 0, 0, 0, 0, 0, 10>>

\* C3: in the two-body scenario update(1) returns and leaves on each mass
\* a net force of radial magnitude G * 5 * 10 / 100 along the x axis,
\* pointing at the other mass.
C3_TwoBodyForce ==
    TwoBodyScenario =>
        /\ outcome = "returned"
        /\ \A i \in 1 .. 2 :
              Abs(masses[i].net_force.F_r[1]) * 100
                 = Gravitational_Constant[1] * 5 * 10 * masses[i].net_force.F_r[2]
        /\ masses[2].net_force =
              Force(RNeg(RDiv(RMul(Gravitational_Constant, R(50)), R(100))),
                    Zero, Zero)

\* ------------------------------------------------------------------ C8
\* an update of a world holding one mass has returned
SingleMassUpdated ==
    /\ pc = "idle"
    /\ outcome = "returned"
    /\ Len(entry.masses) = 1

\* C8 as stated: for a world holding a single mass, after update(dt) the
\* mass's r equals its r before plus dt times its radial velocity.
C8_RadialStepExact ==
    SingleMassUpdated =>
        masses[1].position.r =
            RAdd(entry.masses[1].position.r,
                 RMul(entry.masses[1].velocity.v_r, R(dt)))

\* C8, amended: for a world holding a single mass on which update(dt)
\* returns, r after the call is max(0, r + dt * v_r); where v_r > 0 and
\* dt > 0, r strictly increases; the mass at (10,0,0) with velocity
\* (1,0,0) is at r = 13 after update(3).
C8_RadialStepClamped ==
    SingleMassUpdated =>
        /\ masses[1].position.r =
              RMax(Zero, RAdd(entry.masses[1].position.r,
                              RMul(entry.masses[1].velocity.v_r, R(dt))))
        /\ (RLt(Zero, entry.masses[1].velocity.v_r) /\ dt > 0) =>
              RLt(entry.masses[1].position.r, masses[1].position.r)
        /\ (updates = 1 /\ entry.masses[1].given = <<10, 0, 0, 1, 0, 0, 10>> /\ dt = 3) =>
              masses[1].position.r = R(13)

\* the scenario of the test: (10,0,0) moving at (1,0,0), update(3)
C8_Witness ==
    /\ SingleMassUpdated
    /\ updates = 1
    /\ entry.masses[1].given = <<10, 0, 0, 1, 0, 0, 10>>
    /\ dt = 3
    /\ masses[1].position.r = R(13)

\* ------------------------------------------------------------------ C4
\* - G * m_other / d
ExpectedPotential(self, other) ==
    RNeg(RDiv(RMul(Gravitational_Constant, other.mass),
              DistanceFrom(self, other)))
RECURSIVE SumPotentials(_, _)
SumPotentials(self, others) ==
    IF others = <<>> THEN Zero
    ELSE RAdd(ExpectedPotential(self, Head(others)),
              SumPotentials(self, Tail(others)))
Apart(i, j) == DistanceFrom(masses[i], masses[j]) # Zero

\* C4: for two masses at distance d > 0, get_gravitational_potential
\* returns - G * m_other / d and does not raise; after apply_gravity on
\* others that are all at a distance > 0, the potential of the mass is the
\* sum of these values.
C4_PotentialReturned ==
    /\ (ret.op = "get_gravitational_potential" /\ Apart(ret.i, ret.j)) =>
          /\ ~ret.raised
          /\ ret.value = ExpectedPotential(masses[ret.i], masses[ret.j])
    /\ (/\ ret.op = "apply_gravity"
        /\ \A n \in 1 .. Len(ret.js) : Apart(ret.i, ret.js[n])) =>
          /\ ~ret.raised
          /\ masses[ret.i].potential =
                SumPotentials(masses[ret.i], MassesAt(ret.js))

\* ------------------------------------------------------------------ C5
Coincident(i, j) == DistanceFrom(masses[i], masses[j]) = Zero

\* C5: at distance exactly 0, force_from returns the zero force and
\* get_gravitational_potential returns 0, neither raises, and apply_gravity
\* on others that all coincide with the mass leaves zero sums.
C5_CoincidentContributesNothing ==
    /\ (ret.op = "force_from" /\ Coincident(ret.i, ret.j)) =>
          ~ret.raised /\ ret.value = ForceZero
    /\ (ret.op = "get_gravitational_potential" /\ Coincident(ret.i, ret.j)) =>
          ~ret.raised /\ ret.value = Zero
    /\ (/\ ret.op = "apply_gravity"
        /\ \A n \in 1 .. Len(ret.js) : Coincident(ret.i, ret.js[n])) =>
          /\ ~ret.raised
          /\ masses[ret.i].net_force = ForceZero
          /\ masses[ret.i].potential = Zero

\* the potential of a mass was asked for another mass at the same place
C5_Witness ==
    /\ ret.op = "get_gravitational_potential"
    /\ ret.i # ret.j
    /\ Coincident(ret.i, ret.j)
    /\ masses[ret.i].position.r # Zero

\* ------------------------------------------------------------------ C6
\* the mass with both accumulators at zero
Fresh(m) == [m EXCEPT !.net_force = ForceZero, !.potential = Zero]

\* C6: after apply_gravity(others) the accumulators are those the call
\* builds from zero accumulators, whatever they held before; after
\* apply_gravity([]) they are zero; calling it again on the same others
\* leaves them as they are.
C6_AccumulatorsRebuilt ==
    ret.op = "apply_gravity" =>
        /\ masses[ret.i].net_force =
              ApplyGravity(Fresh(ret.before), MassesAt(ret.js)).m.net_force
        /\ masses[ret.i].potential =
              ApplyGravity(Fresh(ret.before), MassesAt(ret.js)).m.potential
        /\ ret.js = <<>> =>
              /\ masses[ret.i].net_force = ForceZero
              /\ masses[ret.i].potential = Zero
        /\ ApplyGravity(masses[ret.i], MassesAt(ret.js)).m = masses[ret.i]

\* apply_gravity has returned on a mass whose net force was not zero
C6_Witness ==
    /\ ret.op = "apply_gravity"
    /\ ~ret.raised
    /\ ret.js # <<>>
    /\ ret.before.net_force # ForceZero
    /\ masses[ret.i].net_force = ForceZero

\* ------------------------------------------------------------------ C9
\* vx^2 + vy^2 + vz^2 of the arguments g of add_mass
NormSq(g) == R(g[4] * g[4] + g[5] * g[5] + g[6] * g[6])
EuclideanSpeed(m) ==
    /\ MagnitudeSq(m.velocity, m.position) = NormSq(m.given)
    /\ Speed(m) = Sqrt(NormSq(m.given))

\* C9 as stated: every mass added reports the Euclidean norm of the
\* velocity it was given as its speed, wherever it was added, and the mass
\* it was given.
C9_SpeedIsNorm ==
    \A i \in Indices :
        EuclideanSpeed(masses[i]) /\ masses[i].mass = R(masses[i].given[7])

\* C9, amended: a mass added at the origin or off the z axis reports the
\* Euclidean norm of its velocity as its speed; a mass added on the
\* positive z axis (theta = 0, where v_phi is set to 0) reports
\* sqrt(vx^2 + vz^2); every mass reports the mass it was given.
C9_SpeedOffAxis ==
    \A i \in Indices :
        /\ masses[i].mass = R(masses[i].given[7])
        /\ (\/ masses[i].given[1] # 0
            \/ masses[i].given[2] # 0
            \/ masses[i].given[3] = 0) => EuclideanSpeed(masses[i])
        /\ (/\ masses[i].given[1] = 0
            /\ masses[i].given[2] = 0
            /\ masses[i].given[3] > 0) =>
              MagnitudeSq(masses[i].velocity, masses[i].position) =
                 R(masses[i].given[4] * masses[i].given[4]
                     + masses[i].given[6] * masses[i].given[6])

\* the mass of the test: (3,4,12) moving at (1,2,2), speed 3
C9_Witness ==
    \E i \in Indices :
        /\ masses[i].given = <<3, 4, 12, 1, 2, 2, 10>>
        /\ masses[i].velocity.v_theta # Zero
        /\ Speed(masses[i]) = R(3)

\* ------------------------------------------------------------------ C7
\* C7: a Position of either variant, after construction and after any
\* setter call, reports r >= 0, theta in [0, pi] and phi in [0, 2 pi).
C7_Ranges ==
    pt # NoPoint =>
        /\ RLe(Zero, GetR(pt))
        /\ InZeroPi(GetTheta(pt))
        /\ InZeroTwoPi(GetPhi(pt))

\* ----------------------------------------------------------------- C10
\* C10: a SphericalPoint constructed from (x, y, z) other than (0, 0, 0)
\* reads back the same x, y and z.
C10_RoundTrip ==
    (ret.op = "construct" /\ pt.kind = "spherical"
        /\ ret.given # <<0, 0, 0>>) =>
        /\ GetX(pt) = R(ret.given[1])
        /\ GetY(pt) = R(ret.given[2])
        /\ GetZ(pt) = R(ret.given[3])

\* a point in the octant x < 0, y > 0, z < 0 was constructed and holds
\* spherical coordinates
C10_Witness ==
    /\ ret.op = "construct"
    /\ pt.kind = "spherical"
    /\ ret.given = <<-3, 4, -12>>
    /\ pt.r = R(13)

\* ----------------------------------------------------------------- C11
\* the mass was added neither at the origin nor on the z axis
OffAxis(m) == m.position.r # Zero /\ Sin(m.position.theta) # Zero

\* C11: for a mass whose position is neither the origin nor on a pole, the
\* velocity that from_cartesian stored, converted back by to_cartesian at
\* the same position, is the Cartesian velocity that was given.
C11_VelocityRoundTrip ==
    (ret.op = "to_cartesian" /\ OffAxis(masses[ret.i])) =>
        ret.value = <<R(masses[ret.i].given[4]), R(masses[ret.i].given[5]),
                      R(masses[ret.i].given[6])>>

\* the velocity (1,2,2) of the mass at (3,4,12) was converted back; all
\* three of its spherical components are used
C11_Witness ==
    /\ ret.op = "to_cartesian"
    /\ masses[ret.i].given = <<3, 4, 12, 1, 2, 2, 10>>
    /\ masses[ret.i].velocity.v_theta # Zero
    /\ masses[ret.i].velocity.v_phi # Zero
    /\ ret.value = <<R(1), R(2), R(2)>>

\* ----------------------------------------------------------------- C12
\* C12: every completed update(dt) raises the age of every mass it
\* advanced by dt, so that after the first completed update the age of each
\* mass equals the world age.
C12_BodyAgeAccumulates ==
    (pc = "idle" /\ outcome = "returned") =>
        \A i \in Entered :
            /\ masses[i].age = RAdd(entry.masses[i].age, R(dt))
            /\ updates = 1 => masses[i].age = R(age)

\* ----------------------------------------------------------------- C13
\* C13: the world age is 0 until the first update; when an update has
\* returned, the age is the age at its entry plus dt, and stays so while
\* masses are added; inside an update, and after one that raised, it is the
\* age at entry; it is never below the age at the entry of the last update.
C13_AgeMonotonic ==
    /\ updates = 0 => age = 0
    /\ (pc = "idle" /\ outcome = "returned") => age = entry.age + dt
    /\ (pc = "update" \/ outcome = "raised") => age = entry.age
    /\ age >= entry.age

\* ----------------------------------------------------------------- C14
\* C14: add_mass lengthens the collection by one and returns the mass that
\* is now its last element; the masses an update was entered with stay at
\* their places, in their order, during the update and afterwards, and
\* the collection has no other element while the update runs.
C14_InsertionOrder ==
    /\ ret.op = "add_mass" =>
          /\ Len(masses) = ret.count + 1
          /\ masses[Len(masses)] = ret.value
    /\ Len(masses) >= Len(entry.masses)
    /\ \A i \in Entered :
          i <= Len(masses) /\ masses[i].given = entry.masses[i].given
    /\ pc = "update" => Len(masses) = Len(entry.masses)

\* a mass was added after an update that advanced a different mass
C14_Witness ==
    /\ ret.op = "add_mass"
    /\ Len(entry.masses) = 1
    /\ Len(masses) = 2
    /\ moved = {1}
    /\ masses[1].given # masses[2].given
    /\ masses[1].position # entry.masses[1].position

\* ----------------------------------------------------------------- C15
\* values that the setters' modulo leaves as they are
ThetaInRange(a) == a.k = 0 /\ (RLt(Zero, a.s) \/ a = AngleZero)
PhiInRange(a) == a.k = 0 /\ RLe(Zero, a.s)

\* C15: on either variant, a set of theta or phi at r = 0 leaves x, y and z
\* at 0 and the angle reads back as it was set; a later set of r to a
\* value > 0 places the point at that distance along the angles it held.
C15_AnglesAtOrigin ==
    /\ (ret.op \in {"theta", "phi"} /\ GetR(ret.before) = Zero) =>
          /\ GetX(pt) = Zero /\ GetY(pt) = Zero /\ GetZ(pt) = Zero
          /\ (ret.op = "theta" /\ ThetaInRange(ret.value)) =>
                GetTheta(pt) = ret.value
          /\ (ret.op = "phi" /\ PhiInRange(ret.value)) =>
                GetPhi(pt) = ret.value
    /\ (ret.op = "r" /\ GetR(ret.before) = Zero /\ RLt(Zero, ret.value)) =>
          /\ GetR(pt) = ret.value
          /\ GetTheta(pt) = GetTheta(ret.before)
          /\ GetPhi(pt) = GetPhi(ret.before)

\* ----------------------------------------------------------------- C16
\* the position of a mass is the origin or the pole theta = 0
AtOriginOrPole(m) == m.position.r = Zero \/ Sin(m.position.theta) = Zero

\* C16: update_position called on a mass at the origin or at the pole
\* theta = 0 raises, whatever its net force and also when it is zero, and
\* leaves the mass as it was: velocity and position are not changed.
C16_FaultsAtOriginAndPole ==
    (ret.op = "update_position" /\ AtOriginOrPole(ret.before)) =>
        /\ ret.raised
        /\ masses[ret.i].velocity = ret.before.velocity
        /\ masses[ret.i].position = ret.before.position
        /\ masses[ret.i] = ret.before

\* update_position raised at the origin with zero net force and mass 10
C16_Witness ==
    /\ ret.op = "update_position"
    /\ ret.raised
    /\ ret.before.given = <<0, 0, 0, 1, 2, 2, 10>>
    /\ ret.before.net_force = ForceZero
    /\ ret.dt = 1

\* the same at the pole, with zero and with non-zero net force
C16_WitnessPole ==
    /\ ret.op = "update_position"
    /\ ret.raised
    /\ ret.before.given = <<0, 0, 5, 0, 1, 0, 5>>
    /\ ret.before.position.r = R(5)
    /\ ret.before.net_force # ForceZero

\* ----------------------------------------------------------------- C17
\* the radial velocity after a step of d from the state b: the old radial
\* velocity plus the radial acceleration F_r / mass times d
NewRadialVelocity(b, d) ==
    RAdd(b.velocity.v_r, RMul(RDiv(b.net_force.F_r, b.mass), R(d)))

\* the radial coordinate the old velocity alone would give
ExplicitRadius(b, d) == RAdd(b.position.r, RMul(b.velocity.v_r, R(d)))

\* C17: a returning update_position(dt) first raises the radial velocity by
\* a_r * dt and then advances r by the new velocity:
\* new r = old r + (old v_r + a_r * dt) * dt, kept at 0 when that is below 0.
C17_SemiImplicit ==
    (ret.op = "update_position" /\ ~ret.raised) =>
        /\ masses[ret.i].velocity.v_r = NewRadialVelocity(ret.before, ret.dt)
        /\ masses[ret.i].position.r =
              RMax(Zero, RAdd(ret.before.position.r,
                              RMul(NewRadialVelocity(ret.before, ret.dt), R(ret.dt))))

\* a mass at rest at r = 10 with mass 10 and F_r = 1 stepped by 3 is at
\* r = 10.9 with v_r = 0.3; the old velocity would have left it at r = 10
C17_Witness ==
    /\ ret.op = "update_position"
    /\ ~ret.raised
    /\ ret.before.given = <<10, 0, 0, 0, 0, 0, 10>>
    /\ ret.before.position.r = R(10)
    /\ ret.before.net_force.F_r = One
    /\ ret.dt = 3
    /\ masses[ret.i].velocity.v_r = <<3, 10>>
    /\ masses[ret.i].position.r = <<109, 10>>
    /\ masses[ret.i].position.r # ExplicitRadius(ret.before, ret.dt)

\* ----------------------------------------------------------------- C18
\* the angle pi
AnglePi == Angle(R(-1), Zero, 0)

\* C18: on either variant with r > 0, theta set to a value of [0, pi], the
\* ends 0 and pi included, reads back as that value, and with theta = pi the
\* point lies on the negative z axis.
C18_ThetaClosedRange ==
    (ret.op = "theta" /\ RLt(Zero, GetR(ret.before)) /\ InZeroPi(ret.value)) =>
        /\ GetTheta(pt) = ret.value
        /\ ret.value = AnglePi =>
              /\ GetX(pt) = Zero
              /\ GetY(pt) = Zero
              /\ GetZ(pt) = RNeg(GetR(ret.before))

====
